---- MODULE Spec2Model ----
(***************************************************************************)
(* The node engine of qnetsim (src/qnetsim/node.py): accept, service,      *)
(* blocking, the unblocking cascade of release, routing and the next-event *)
(* computation, as a state machine.  Python calls that nest (release ->    *)
(* release_blocked_individual -> release ...) are an explicit call stack;  *)
(* each statement of release is one step.                                  *)
(***************************************************************************)
EXTENDS Integers, Sequences, FiniteSets, TLC

\* ------------------------------------------------------------------ bounds
MaxInds == 4          \* individuals the arrival process creates
MaxTime == 4          \* latest date at which the driver fires an event

\* --------------------------------------------------- values of the program
\* random() yields rnd/Scale, probabilities are counted in 1/Scale
Scale == 4
\* Python's False in a date field; in comparisons and sums it counts as 0
Unset == -1
\* the "Inf" string: Python 2 orders every number before every string, and no
\* date or length of the model comes near this value
Inf == 999
\* individual.server = False, server.cust = False
NoServer == <<0, 0>>
NoCust == 0

PyNum(x) == IF x = Unset THEN 0 ELSE x
PyLt(a, b) == IF b = Inf THEN a # Inf ELSE IF a = Inf THEN FALSE ELSE PyNum(a) < PyNum(b)
PyEq(a, b) == IF a = Inf \/ b = Inf THEN a = b ELSE PyNum(a) = PyNum(b)

VARIABLES
    params,           \* the simulation's parameters
    individuals,      \* node -> list of ids (Node.individuals; the exit node's too)
    blocked_queue,    \* node -> list of <<origin node, individual id>>
    next_event_date,  \* node -> date or Inf
    servers,          \* node -> list of [cust, busy]
    inds,             \* id -> the Individual's fields
    digraph,          \* simulation.digraph: set of <<server, server>>
    state,            \* simulation.state: node -> <<count, blocked count>>
    fault,            \* "" or the exception that ended the run
    stack,            \* the active release calls, innermost last
    event,            \* the event being fired and finish_service's locals
    clock             \* the driver's current_time

vars == <<params, individuals, blocked_queue, next_event_date, servers, inds,
          digraph, state, fault, stack, event, clock>>

\* -------------------------------------------------------------- parameters
NumNodes == Len(params.c)
Nodes == 1..NumNodes
ExitNode == NumNodes + 1
Classes == 1..Len(params.transition_matrix)
Draws == 0..(Scale - 1)
\* what simulation.service_times[n][cls]() can return; the exit node samples nothing
service_times(n, cls) == IF n = ExitNode THEN {0} ELSE params.service_times[n][cls]

c(n) == params.c[n]
node_capacity(n) ==
    IF n = ExitNode THEN Inf
    ELSE IF params.queue_capacities[n] = Inf THEN Inf
    ELSE params.queue_capacities[n] + c(n)
transition_row(n) == [cls \in Classes |-> params.transition_matrix[cls][n]]

RECURSIVE cum_row(_, _, _)
cum_row(row, p, sum_p) ==
    IF p > Len(row) THEN <<>>
    ELSE <<sum_p + row[p]>> \o cum_row(row, p + 1, sum_p + row[p])
find_cum_transition_row(n) == [cls \in Classes |-> cum_row(transition_row(n)[cls], 1, 0)]

\* faulty variant: the walk compares with <= and so can stop at a node of probability 0
RECURSIVE next_node_walk_le(_, _, _)
next_node_walk_le(cum, rnd_num, p) ==
    IF p > Len(cum) THEN ExitNode
    ELSE IF rnd_num <= cum[p] THEN p
    ELSE next_node_walk_le(cum, rnd_num, p + 1)

RECURSIVE next_node_walk(_, _, _)
next_node_walk(cum, rnd_num, p) ==
    IF p > Len(cum) THEN ExitNode
    ELSE IF rnd_num < cum[p] THEN p
    ELSE next_node_walk(cum, rnd_num, p + 1)
next_node(n, customer_class, rnd_num) ==
    next_node_walk(find_cum_transition_row(n)[customer_class], rnd_num, 1)

\* ------------------------------------------------------------ the world
\* The objects the Node methods mutate, as one value, so that a method that
\* calls other methods is the composition of their effects.
World == [individuals |-> individuals, blocked_queue |-> blocked_queue,
          next_event_date |-> next_event_date, servers |-> servers,
          inds |-> inds, digraph |-> digraph, state |-> state, fault |-> fault]

SetWorld(w) ==
    /\ individuals' = w.individuals
    /\ blocked_queue' = w.blocked_queue
    /\ next_event_date' = w.next_event_date
    /\ servers' = w.servers
    /\ inds' = w.inds
    /\ digraph' = w.digraph
    /\ state' = w.state
    /\ fault' = w.fault

Raise(w, what) == IF w.fault = "" THEN [w EXCEPT !.fault = what] ELSE w

\* position of the first element of seq equal to x, 0 when there is none
RECURSIVE IndexFrom(_, _, _)
IndexFrom(seq, x, p) ==
    IF p > Len(seq) THEN 0
    ELSE IF seq[p] = x THEN p
    ELSE IndexFrom(seq, x, p + 1)
Index(seq, x) == IndexFrom(seq, x, 1)

RemoveAt(seq, p) == SubSeq(seq, 1, p - 1) \o SubSeq(seq, p + 1, Len(seq))
FirstC(w, n) == SubSeq(w.individuals[n], 1, IF Len(w.individuals[n]) < c(n) THEN Len(w.individuals[n]) ELSE c(n))

\* faulty variant: attach_server draws no edge
attach_edges_none(w, n, k, i, q) == w

\* attach_server's loop over self.blocked_queue, from entry q on
RECURSIVE attach_edges(_, _, _, _, _)
attach_edges(w, n, k, i, q) ==
    IF q > Len(w.blocked_queue[n]) THEN w
    ELSE LET blq == w.blocked_queue[n][q]
         IN IF Index(w.individuals[blq[1]], blq[2]) = 0
            THEN Raise(w, "IndexError")
            ELSE IF blq[2] # i
                 THEN attach_edges([w EXCEPT !.digraph = @ \cup {<<w.inds[blq[2]].server, <<n, k>>>>}],
                                   n, k, i, q + 1)
                 ELSE attach_edges(w, n, k, i, q + 1)

\* faulty variant: the server is marked busy but its occupant is not noted
attach_server_forgets_cust(w, n, k, i) ==
    attach_edges([w EXCEPT !.servers[n][k].busy = TRUE,
                           !.inds[i].server = <<n, k>>],
                 n, k, i, 1)

attach_server(w, n, k, i) ==
    attach_edges([w EXCEPT !.servers[n][k] = [cust |-> i, busy |-> TRUE],
                           !.inds[i].server = <<n, k>>],
                 n, k, i, 1)

\* faulty variant: only the edges out of the server are removed
detatch_server_out_edges(w, srv, i) ==
    IF srv = NoServer THEN Raise(w, "AttributeError")
    ELSE [w EXCEPT !.servers[srv[1]][srv[2]] = [cust |-> NoCust, busy |-> FALSE],
                   !.inds[i].server = NoServer,
                   !.digraph = {e \in @ : e[1] # srv}]

\* faulty variant: the server stays marked busy
detatch_server_keeps_busy(w, srv, i) ==
    IF srv = NoServer THEN Raise(w, "AttributeError")
    ELSE [w EXCEPT !.servers[srv[1]][srv[2]] = [cust |-> NoCust, busy |-> TRUE],
                   !.inds[i].server = NoServer,
                   !.digraph = {e \in @ : e[1] # srv /\ e[2] # srv}]

detatch_server(w, srv, i) ==
    IF srv = NoServer THEN Raise(w, "AttributeError")
    ELSE [w EXCEPT !.servers[srv[1]][srv[2]] = [cust |-> NoCust, busy |-> FALSE],
                   !.inds[i].server = NoServer,
                   !.digraph = {e \in @ : e[1] # srv /\ e[2] # srv}]

\* index of the first idle server, 0 when free_servers is empty
RECURSIVE free_server_from(_, _, _)
free_server_from(w, n, k) ==
    IF k > Len(w.servers[n]) THEN 0
    ELSE IF ~w.servers[n][k].busy THEN k
    ELSE free_server_from(w, n, k + 1)
find_free_server(w, n) == free_server_from(w, n, 1)

\* faulty variant: the first counter is decremented whoever leaves
change_state_release_first(w, n, i) ==
    [w EXCEPT !.state[n][1] = @ - 1]

change_state_release(w, n, i) ==
    IF w.inds[i].is_blocked
    THEN [w EXCEPT !.state[n][2] = @ - 1]
    ELSE [w EXCEPT !.state[n][1] = @ - 1]

change_state_block(w, n) ==
    [w EXCEPT !.state[n][2] = @ + 1, !.state[n][1] = @ - 1]

change_state_accept(w, n) ==
    [w EXCEPT !.state[n][1] = @ + 1]

\* faulty variant: service also begins when c individuals are already present
begin_service_if_possible_accept_le(w, n, i, current_time, sampled) ==
    LET w1 == [w EXCEPT !.inds[i].arrival_date = current_time,
                        !.inds[i].service_time = sampled]
    IN IF Len(w1.individuals[n]) <= c(n)
       THEN IF find_free_server(w1, n) = 0 THEN Raise(w1, "IndexError")
            ELSE LET w2 == attach_server(w1, n, find_free_server(w1, n), i)
                 IN [w2 EXCEPT !.inds[i].service_start_date = current_time,
                               !.inds[i].service_end_date = current_time + sampled]
       ELSE w1

begin_service_if_possible_accept(w, n, i, current_time, sampled) ==
    LET w1 == [w EXCEPT !.inds[i].arrival_date = current_time,
                        !.inds[i].service_time = sampled]
    IN IF Len(w1.individuals[n]) < c(n)
       THEN IF find_free_server(w1, n) = 0 THEN Raise(w1, "IndexError")
            ELSE LET w2 == attach_server(w1, n, find_free_server(w1, n), i)
                 IN [w2 EXCEPT !.inds[i].service_start_date = current_time,
                               !.inds[i].service_end_date = current_time + sampled]
       ELSE w1

\* faulty variant: is_blocked is not cleared
accept_keeps_flag(w, n, i, current_time, sampled) ==
    LET w1 == [w EXCEPT !.inds[i].exit_date = Unset]
        w2 == begin_service_if_possible_accept(w1, n, i, current_time, sampled)
    IN IF w2.fault # "" THEN w2
       ELSE change_state_accept([w2 EXCEPT !.individuals[n] = Append(@, i)], n)

accept(w, n, i, current_time, sampled) ==
    LET w1 == [w EXCEPT !.inds[i].exit_date = Unset, !.inds[i].is_blocked = FALSE]
        w2 == begin_service_if_possible_accept(w1, n, i, current_time, sampled)
    IN IF w2.fault # "" THEN w2
       ELSE change_state_accept([w2 EXCEPT !.individuals[n] = Append(@, i)], n)

\* the exit node keeps who reached it
exit_accept(w, i) == [w EXCEPT !.individuals[ExitNode] = Append(@, i)]

node_accept(w, n, i, current_time, sampled) ==
    IF n = ExitNode THEN exit_accept(w, i) ELSE accept(w, n, i, current_time, sampled)

\* begin_service_if_possible_release's loop over self.individuals[:self.c]
\* faulty variant: the next in line gets its dates and no server
RECURSIVE begin_release_from_no_server(_, _, _, _)
begin_release_from_no_server(w, n, current_time, p) ==
    IF w.fault # "" \/ p > Len(FirstC(w, n)) THEN w
    ELSE LET i == w.individuals[n][p]
         IN IF w.inds[i].server = NoServer /\ w.inds[i].service_end_date = Unset
            THEN LET w2 == [w EXCEPT !.inds[i].service_start_date = current_time,
                                     !.inds[i].service_end_date =
                                         current_time + PyNum(w.inds[i].service_time)]
                 IN begin_release_from_no_server(w2, n, current_time, p + 1)
            ELSE begin_release_from_no_server(w, n, current_time, p + 1)

RECURSIVE begin_release_from(_, _, _, _)
begin_release_from(w, n, current_time, p) ==
    IF w.fault # "" \/ p > Len(FirstC(w, n)) THEN w
    ELSE LET i == w.individuals[n][p]
         IN IF w.inds[i].server = NoServer
            THEN IF find_free_server(w, n) = 0 THEN Raise(w, "IndexError")
                 ELSE LET w1 == attach_server(w, n, find_free_server(w, n), i)
                          w2 == [w1 EXCEPT !.inds[i].service_start_date = current_time,
                                           !.inds[i].service_end_date =
                                               current_time + PyNum(w1.inds[i].service_time)]
                      IN begin_release_from(w2, n, current_time, p + 1)
            ELSE begin_release_from(w, n, current_time, p + 1)

\* faulty variant: the vacated slot is filled only when more than c are left
begin_service_if_possible_release_gt(w, n, current_time) ==
    IF Len(w.individuals[n]) > c(n)
    THEN begin_release_from(w, n, current_time, 1)
    ELSE w

begin_service_if_possible_release(w, n, current_time) ==
    IF Len(w.individuals[n]) >= c(n)
    THEN begin_release_from(w, n, current_time, 1)
    ELSE w

\* faulty variant: an edge to the destination's first server only
block_edges_first(w, i, dest) ==
    [w EXCEPT !.digraph = @ \cup {<<w.inds[i].server, <<dest, 1>>>>}]

\* block_individual's loop over next_node.servers
block_edges(w, i, dest) ==
    [w EXCEPT !.digraph = @ \cup {<<w.inds[i].server, <<dest, k>>>> : k \in 1..Len(w.servers[dest])}]

\* faulty variant: the blocked individual gives up its server
block_individual_detaching(w, n, i, dest) ==
    LET w1 == [w EXCEPT !.inds[i].is_blocked = TRUE]
        w2 == change_state_block(w1, n)
        w3 == [w2 EXCEPT !.blocked_queue[dest] = Append(@, <<n, i>>)]
    IN detatch_server(w3, w3.inds[i].server, i)

\* faulty variant: the entry names the destination as the origin
block_individual_wrong_origin(w, n, i, dest) ==
    LET w1 == [w EXCEPT !.inds[i].is_blocked = TRUE]
        w2 == change_state_block(w1, n)
        w3 == [w2 EXCEPT !.blocked_queue[dest] = Append(@, <<dest, i>>)]
    IN block_edges(w3, i, dest)

block_individual(w, n, i, dest) ==
    LET w1 == [w EXCEPT !.inds[i].is_blocked = TRUE]
        w2 == change_state_block(w1, n)
        w3 == [w2 EXCEPT !.blocked_queue[dest] = Append(@, <<n, i>>)]
    IN block_edges(w3, i, dest)

\* the visit record; wait, service_end_date and blocked are derived from it
DataRecord(arrival_date, service_time, service_start_date, exit_date, node) ==
    [arrival_date |-> arrival_date, service_time |-> service_time,
     service_start_date |-> service_start_date, exit_date |-> exit_date, node |-> node,
     wait |-> PyNum(service_start_date) - PyNum(arrival_date),
     service_end_date |-> PyNum(service_start_date) + PyNum(service_time),
     blocked |-> PyNum(exit_date) - (PyNum(service_start_date) + PyNum(service_time))]

\* faulty variant: the visit's service_end_date is left on the individual
write_individual_record_keeps_end(w, n, i) ==
    LET ind == w.inds[i]
        record == DataRecord(ind.arrival_date, ind.service_time, ind.service_start_date,
                             ind.exit_date, n)
    IN [w EXCEPT !.inds[i].data_records[n] = Append(@, record),
                 !.inds[i].arrival_date = Unset,
                 !.inds[i].service_time = Unset,
                 !.inds[i].service_start_date = Unset]

write_individual_record(w, n, i) ==
    LET ind == w.inds[i]
        record == DataRecord(ind.arrival_date, ind.service_time, ind.service_start_date,
                             ind.exit_date, n)
    IN [w EXCEPT !.inds[i].data_records[n] = Append(@, record),
                 !.inds[i].arrival_date = Unset,
                 !.inds[i].service_time = Unset,
                 !.inds[i].service_start_date = Unset,
                 !.inds[i].service_end_date = Unset]

\* min(list + ["Inf"]) in Python 2's ordering, the first least element winning
RECURSIVE py_min(_, _, _)
py_min(seq, p, best) ==
    IF p > Len(seq) THEN best
    ELSE py_min(seq, p + 1, IF p = 1 \/ PyLt(seq[p], best) THEN seq[p] ELSE best)

\* faulty variant: an individual that ends at current_time still counts
RECURSIVE event_candidates_nonstrict(_, _, _, _)
event_candidates_nonstrict(w, n, current_time, p) ==
    IF p > Len(FirstC(w, n)) THEN <<>>
    ELSE LET ind == w.inds[w.individuals[n][p]]
         IN (IF ~ind.is_blocked /\ ~PyLt(ind.service_end_date, current_time)
             THEN <<ind.service_end_date>> ELSE <<>>)
            \o event_candidates_nonstrict(w, n, current_time, p + 1)

RECURSIVE event_candidates(_, _, _, _)
event_candidates(w, n, current_time, p) ==
    IF p > Len(FirstC(w, n)) THEN <<>>
    ELSE LET ind == w.inds[w.individuals[n][p]]
         IN (IF ~ind.is_blocked /\ PyLt(current_time, ind.service_end_date)
             THEN <<ind.service_end_date>> ELSE <<>>)
            \o event_candidates(w, n, current_time, p + 1)

update_next_event_date(w, n, current_time) ==
    [w EXCEPT !.next_event_date[n] =
        py_min(event_candidates(w, n, current_time, 1) \o <<Inf>>, 1, Inf)]

\* faulty variant: of several individuals that end at next_event_date the last is taken
RECURSIVE end_date_index_last(_, _, _)
end_date_index_last(w, n, p) ==
    IF p > Len(FirstC(w, n)) THEN 0
    ELSE LET rest == end_date_index_last(w, n, p + 1)
         IN IF rest # 0 THEN rest
            ELSE IF PyEq(w.inds[w.individuals[n][p]].service_end_date, w.next_event_date[n]) THEN p
            ELSE 0

\* [...].index(self.next_event_date) over self.individuals[:self.c]; 0 is ValueError
RECURSIVE end_date_index(_, _, _)
end_date_index(w, n, p) ==
    IF p > Len(FirstC(w, n)) THEN 0
    ELSE IF PyEq(w.inds[w.individuals[n][p]].service_end_date, w.next_event_date[n]) THEN p
    ELSE end_date_index(w, n, p + 1)

\* faulty variant: a node that holds exactly its capacity still has room
has_room_lax(w, dest) == ~PyLt(node_capacity(dest), Len(w.individuals[dest]))

\* finish_service's test of the destination
has_room(w, dest) == PyLt(Len(w.individuals[dest]), node_capacity(dest))

\* ------------------------------------------------------------------ frames
Frame(n, index, dest, current_time) ==
    [self |-> n, next_individual_index |-> index, next_node |-> dest,
     current_time |-> current_time, next_individual |-> 0, pc |-> "pop",
     received |-> <<>>]

NoEvent == [kind |-> "none"]
Top == stack[Len(stack)]
SetTop(f) == [stack EXCEPT ![Len(stack)] = f]
Running == fault = "" /\ stack # <<>>

NewIndividual(id, cls) ==
    [id_number |-> id, customer_class |-> cls, arrival_date |-> Unset,
     service_time |-> Unset, service_start_date |-> Unset, service_end_date |-> Unset,
     exit_date |-> Unset, is_blocked |-> FALSE, server |-> NoServer,
     data_records |-> [n \in Nodes |-> <<>>]]

\* the earliest next_event_date over the transitive nodes
RECURSIVE min_date_from(_, _)
min_date_from(n, best) ==
    IF n > NumNodes THEN best
    ELSE min_date_from(n + 1, IF PyLt(next_event_date[n], best) THEN next_event_date[n] ELSE best)
EarliestEvent == min_date_from(1, Inf)

\* ------------------------------------------------------------- parameters
\* Two servers without a buffer and one server with a buffer of one; class 1
\* moves anywhere, class 2 leaves node 1 for node 2 or the exit and node 2 for
\* node 1; service takes 0 or 1; three individuals arrive, at any date.
General ==
    [c |-> <<2, 1>>, queue_capacities |-> <<0, 1>>,
     transition_matrix |-> << << <<1, 2>>, <<2, 0>> >>,
                              << <<0, 2>>, <<4, 0>> >> >>,
     service_times |-> << <<{0, 1}, {0, 1}>>, <<{0, 1}, {0, 1}>> >>,
     arrival_dates |-> 0..(MaxTime - 2),
     max_simulation_time |-> MaxTime - 2,
     population |-> 3]

\* Two nodes of two servers and no buffer that feed each other: class 1 goes to
\* the other node, class 2 stays at node 1 and leaves from node 2; service times
\* differ by node and class, and everybody arrives at date 0.
Cascade ==
    [c |-> <<2, 2>>, queue_capacities |-> <<0, 0>>,
     transition_matrix |-> << << <<0, 4>>, <<4, 0>> >>,
                              << <<4, 0>>, <<0, 0>> >> >>,
     service_times |-> << <<{1, 2}, {3}>>, <<{2, 3}, {4}>> >>,
     arrival_dates |-> {0},
     max_simulation_time |-> MaxTime,
     population |-> MaxInds]

\* One server with a buffer of two feeding one server without buffer, which
\* feeds it back: class 1 leaves node 1 for node 2 or the exit, class 2 comes
\* back to node 1 and leaves from node 2; everybody arrives at date 0.
Queueing ==
    [c |-> <<1, 1>>, queue_capacities |-> <<2, 0>>,
     transition_matrix |-> << << <<0, 2>>, <<4, 0>> >>,
                              << <<4, 0>>, <<0, 0>> >> >>,
     service_times |-> << <<{2}, {0, 2}>>, <<{1}, {1}>> >>,
     arrival_dates |-> {0},
     max_simulation_time |-> MaxTime,
     population |-> MaxInds]

\* One node of one server and a buffer without limit, whose individuals come
\* back to it or leave; everybody arrives at date 0.
Unbounded ==
    [c |-> <<1>>, queue_capacities |-> <<Inf>>,
     transition_matrix |-> << << <<2>> >> >>,
     service_times |-> << <<{1}>> >>,
     arrival_dates |-> {0},
     max_simulation_time |-> MaxTime,
     population |-> MaxInds]

Configurations == {General, Cascade, Queueing, Unbounded}

\* the simulation built from one of the parameter sets cfgs, nothing accepted yet
Setup(cfgs) ==
    /\ params \in cfgs
    /\ individuals = [n \in 1..(Len(params.c) + 1) |-> <<>>]
    /\ blocked_queue = [n \in 1..Len(params.c) |-> <<>>]
    /\ next_event_date = [n \in 1..Len(params.c) |-> Inf]
    /\ servers = [n \in 1..Len(params.c) |->
                    [k \in 1..params.c[n] |-> [cust |-> NoCust, busy |-> FALSE]]]
    /\ inds = <<>>
    /\ digraph = {}
    /\ state = [n \in 1..Len(params.c) |-> <<0, 0>>]
    /\ fault = ""
    /\ stack = <<>>
    /\ event = NoEvent
    /\ clock = 0

Init == Setup(Configurations)

\* ----------------------------------------------------------------- actions
\* An individual is created and node n accepts it at date t: n.accept(individual, t),
\* and the driver's date becomes t.
AcceptNew(n, cls, t) ==
    /\ fault = "" /\ stack = <<>> /\ event = NoEvent
    /\ Len(inds) < params.population
    /\ t \in params.arrival_dates
    /\ clock <= t /\ ~PyLt(EarliestEvent, t)
    /\ \E sampled \in service_times(n, cls) :
          LET id == Len(inds) + 1
              w0 == [World EXCEPT !.inds = Append(@, NewIndividual(id, cls))]
          IN SetWorld(accept(w0, n, id, t, sampled))
    /\ event' = [kind |-> "arrival", node |-> n, individual |-> Len(inds) + 1]
    /\ clock' = t
    /\ UNCHANGED <<params, stack>>

\* The arrival process sends a new individual to a node it found not full.
Arrive(n, cls, t) ==
    /\ PyLt(Len(individuals[n]), node_capacity(n))
    /\ AcceptNew(n, cls, t)

\* A caller that does not look at the capacity first invokes accept on a full node.
Overfill(n, cls, t) ==
    /\ ~PyLt(Len(individuals[n]), node_capacity(n))
    /\ AcceptNew(n, cls, t)

\* the ids of seq whose individual holds no server, in list order
RECURSIVE unserved_from(_, _)
unserved_from(seq, p) ==
    IF p > Len(seq) THEN <<>>
    ELSE (IF inds[seq[p]].server = NoServer THEN <<seq[p]>> ELSE <<>>) \o unserved_from(seq, p + 1)

\* finish_service's locals; before and waiting remember the node's list and who
\* in it had no server when the event fired
FinishServiceEvent(n, index, i, rnd_num, dest, released) ==
    [kind |-> "finish_service", node |-> n, next_individual_index |-> index,
     next_individual |-> i, rnd_num |-> rnd_num, next_node |-> dest,
     released |-> released, before |-> individuals[n],
     waiting |-> unserved_from(individuals[n], 1),
     queued |-> Len(blocked_queue[n])]

\* Node.finish_service with the draw rnd_num; a release it calls runs in the
\* steps that follow
finish_service(n, rnd_num) ==
    /\ clock' = next_event_date[n]
    /\ LET next_individual_index == end_date_index(World, n, 1)
       IN IF next_individual_index = 0
          THEN /\ SetWorld(Raise(World, "ValueError"))
               /\ event' = FinishServiceEvent(n, 0, 0, rnd_num, 0, FALSE)
               /\ UNCHANGED stack
          ELSE LET next_individual == individuals[n][next_individual_index]
                   dest == next_node(n, inds[next_individual].customer_class, rnd_num)
               IN /\ event' = FinishServiceEvent(n, next_individual_index, next_individual,
                                                 rnd_num, dest, has_room(World, dest))
                  /\ IF has_room(World, dest)
                     THEN /\ stack' = <<Frame(n, next_individual_index, dest, next_event_date[n])>>
                          /\ SetWorld(World)
                     ELSE /\ SetWorld(block_individual(World, n, next_individual, dest))
                          /\ UNCHANGED stack
    /\ UNCHANGED params

\* The driver fires the event of a node that holds the earliest event date.
FinishService(n, rnd_num) ==
    /\ fault = "" /\ stack = <<>> /\ event = NoEvent
    /\ next_event_date[n] # Inf
    /\ next_event_date[n] = EarliestEvent
    /\ next_event_date[n] <= params.max_simulation_time
    /\ finish_service(n, rnd_num)

\* the entries of all blocked queues that name individual i
QueuedAs(i) == {<<d, q>> \in Nodes \X (1..MaxInds) :
                   q <= Len(blocked_queue[d]) /\ blocked_queue[d][q][2] = i}

\* A caller fires the node's event a second time without having recomputed
\* next_event_date: the individual the date belonged to has left or is blocked.
\* It does so until some individual has been blocked twice.
FinishServiceAgain(n, rnd_num) ==
    /\ fault = "" /\ stack = <<>>
    /\ event # NoEvent
    /\ event.kind = "finish_service"
    /\ event.node = n
    /\ next_event_date[n] # Inf
    /\ \A i \in 1..Len(inds) : Cardinality(QueuedAs(i)) <= 1
    /\ finish_service(n, rnd_num)

\* faulty variant: release stamps the exit date and leaves the individual in the list
RelPopKeepsEntry ==
    /\ Running /\ Top.pc = "pop"
    /\ LET f == Top
           i == individuals[f.self][f.next_individual_index]
       IN /\ SetWorld([World EXCEPT !.inds[i].exit_date = f.current_time])
          /\ stack' = SetTop([f EXCEPT !.next_individual = i, !.pc = "detach"])
    /\ UNCHANGED <<params, event, clock>>

\* release, line by line
RelPop ==
    /\ Running /\ Top.pc = "pop"
    /\ LET f == Top
           i == individuals[f.self][f.next_individual_index]
       IN /\ SetWorld([World EXCEPT !.individuals[f.self] = RemoveAt(@, f.next_individual_index),
                                    !.inds[i].exit_date = f.current_time])
          /\ stack' = SetTop([f EXCEPT !.next_individual = i, !.pc = "detach"])
    /\ UNCHANGED <<params, event, clock>>

\* faulty variant: release goes on without having detached the server
RelDetachSkipped ==
    /\ Running /\ Top.pc = "detach"
    /\ SetWorld(World)
    /\ stack' = SetTop([Top EXCEPT !.pc = "record"])
    /\ UNCHANGED <<params, event, clock>>

RelDetach ==
    /\ Running /\ Top.pc = "detach"
    /\ SetWorld(detatch_server(World, inds[Top.next_individual].server, Top.next_individual))
    /\ stack' = SetTop([Top EXCEPT !.pc = "record"])
    /\ UNCHANGED <<params, event, clock>>

RelRecord ==
    /\ Running /\ Top.pc = "record"
    /\ SetWorld(write_individual_record(World, Top.self, Top.next_individual))
    /\ stack' = SetTop([Top EXCEPT !.pc = "state"])
    /\ UNCHANGED <<params, event, clock>>

RelChangeState ==
    /\ Running /\ Top.pc = "state"
    /\ SetWorld(change_state_release(World, Top.self, Top.next_individual))
    /\ stack' = SetTop([Top EXCEPT !.pc = "unblock"])
    /\ UNCHANGED <<params, event, clock>>

\* faulty variant: the head entry stays on the blocked queue
RelUnblockKeepsEntry ==
    /\ Running /\ Top.pc = "unblock"
    /\ LET f == Top
           n == f.self
       IN IF Len(blocked_queue[n]) > 0
          THEN LET node_to_receive_from == blocked_queue[n][1][1]
                   id == blocked_queue[n][1][2]
                   individual_to_receive_index == Index(individuals[node_to_receive_from], id)
               IN IF individual_to_receive_index = 0
                  THEN /\ SetWorld(Raise(World, "ValueError"))
                       /\ UNCHANGED stack
                  ELSE /\ SetWorld(World)
                       /\ stack' = Append(
                              SetTop([f EXCEPT !.pc = "begin",
                                               !.received = <<node_to_receive_from, id, inds[id].server>>]),
                              Frame(node_to_receive_from, individual_to_receive_index, n, f.current_time))
          ELSE /\ SetWorld(World)
               /\ stack' = SetTop([f EXCEPT !.pc = "begin"])
    /\ UNCHANGED <<params, event, clock>>

\* faulty variant: the blocked queue is not looked at
RelUnblockSkipped ==
    /\ Running /\ Top.pc = "unblock"
    /\ SetWorld(World)
    /\ stack' = SetTop([Top EXCEPT !.pc = "begin"])
    /\ UNCHANGED <<params, event, clock>>

\* release_blocked_individual, up to its call of release on the origin node
RelUnblock ==
    /\ Running /\ Top.pc = "unblock"
    /\ LET f == Top
           n == f.self
       IN IF Len(blocked_queue[n]) > 0
          THEN LET node_to_receive_from == blocked_queue[n][1][1]
                   id == blocked_queue[n][1][2]
                   individual_to_receive_index == Index(individuals[node_to_receive_from], id)
               IN IF individual_to_receive_index = 0
                  THEN /\ SetWorld(Raise(World, "ValueError"))
                       /\ UNCHANGED stack
                  ELSE /\ SetWorld([World EXCEPT !.blocked_queue[n] = Tail(@)])
                       /\ stack' = Append(
                              SetTop([f EXCEPT !.pc = "begin",
                                               !.received = <<node_to_receive_from, id, inds[id].server>>]),
                              Frame(node_to_receive_from, individual_to_receive_index, n, f.current_time))
          ELSE /\ SetWorld(World)
               /\ stack' = SetTop([f EXCEPT !.pc = "begin"])
    /\ UNCHANGED <<params, event, clock>>

RelBegin ==
    /\ Running /\ Top.pc = "begin"
    /\ SetWorld(begin_service_if_possible_release(World, Top.self, Top.current_time))
    /\ stack' = SetTop([Top EXCEPT !.pc = "accept"])
    /\ UNCHANGED <<params, event, clock>>

\* next_node.accept(next_individual, current_time), then release returns
RelAccept ==
    /\ Running /\ Top.pc = "accept"
    /\ \E sampled \in service_times(Top.next_node, inds[Top.next_individual].customer_class) :
          SetWorld(node_accept(World, Top.next_node, Top.next_individual, Top.current_time, sampled))
    /\ stack' = SubSeq(stack, 1, Len(stack) - 1)
    /\ UNCHANGED <<params, event, clock>>

\* the driver, the event done: every node recomputes its next event date
RECURSIVE update_all(_, _, _)
update_all(w, n, current_time) ==
    IF n > NumNodes THEN w
    ELSE update_all(update_next_event_date(w, n, current_time), n + 1, current_time)

DriverUpdate ==
    /\ fault = "" /\ stack = <<>> /\ event # NoEvent
    /\ SetWorld(update_all(World, 1, clock))
    /\ event' = NoEvent
    /\ UNCHANGED <<params, stack, clock>>

Next ==
    \/ \E n \in Nodes, cls \in Classes, t \in 0..MaxTime : Arrive(n, cls, t)
    \/ \E n \in Nodes, rnd_num \in Draws : FinishService(n, rnd_num)
    \/ RelPop
    \/ RelDetach
    \/ RelRecord
    \/ RelChangeState
    \/ RelUnblock
    \/ RelBegin
    \/ RelAccept
    \/ DriverUpdate

Spec == Init /\ [][Next]_vars

\* the same program under a caller of accept that does not respect the capacity
NextDirect ==
    \/ Next
    \/ \E n \in Nodes, cls \in Classes, t \in 0..MaxTime : Overfill(n, cls, t)

\* such a caller can fill a node with the whole population, so the networks are
\* the two with a buffer
InitDirect == Setup({General, Queueing})

SpecDirect == InitDirect /\ [][NextDirect]_vars

\* the same program under a caller that fires a node's event twice
NextStale ==
    \/ Next
    \/ \E n \in Nodes, rnd_num \in Draws : FinishServiceAgain(n, rnd_num)

InitStale == Setup({Cascade})

SpecStale == InitStale /\ [][NextStale]_vars

\* ------------------------------------------------------------------ claims
Range(seq) == {seq[p] : p \in 1..Len(seq)}
ServedIn(n) == {p \in 1..Len(individuals[n]) : inds[individuals[n][p]].server # NoServer}
BlockedIn(n) == {p \in 1..Len(individuals[n]) : inds[individuals[n][p]].is_blocked}
InEvent == event # NoEvent

\* C1: in every reachable state, the steps inside a cascade included, every
\* node holds at most node_capacity individuals and at most c of them hold a
\* server.
C1_CapacityRespected ==
    \A n \in Nodes :
        /\ ~PyLt(node_capacity(n), Len(individuals[n]))
        /\ Cardinality(ServedIn(n)) <= c(n)

\* a cascade is two or more releases deep and a node in it is full
C1_Witness ==
    /\ Len(stack) >= 2
    /\ \E n \in Nodes : Len(individuals[n]) = node_capacity(n) /\ Cardinality(ServedIn(n)) = c(n)

\* C2, as claimed: no individual is blocked and holds a server at once.
C2_BlockedExcludesServer ==
    \A i \in 1..Len(inds) : ~(inds[i].is_blocked /\ inds[i].server # NoServer)

\* C2, amended: a blocked individual that is in a node's list holds a server of
\* that node, from block_individual until release pops it.
C2_BlockedKeepsServer ==
    \A n \in Nodes : \A p \in BlockedIn(n) :
        /\ inds[individuals[n][p]].server # NoServer
        /\ inds[individuals[n][p]].server[1] = n

\* block_individual has just marked an individual blocked
C2_Witness ==
    /\ event.kind = "finish_service" /\ fault = "" /\ stack = <<>>
    /\ ~event.released
    /\ inds[event.next_individual].is_blocked
    /\ inds[event.next_individual].server # NoServer

\* An individual that release_blocked_individual took off node d's queue is
\* admitted once d.accept has appended it and cleared its flag.
Admitted(d, i) == i \in Range(individuals[d]) /\ ~inds[i].is_blocked

\* C3: unblocking is first in, first out per destination.  The entries of
\* d.blocked_queue are taken from its head, so of two releases of d that are
\* both on the call stack the outer one took the individual blocked earlier:
\* the inner one's individual is not admitted to d before the outer one's.
C3_FifoUnblocking ==
    \A p, q \in 1..Len(stack) :
        (/\ p < q
         /\ stack[p].self = stack[q].self
         /\ stack[p].received # <<>>
         /\ stack[q].received # <<>>
         /\ Admitted(stack[q].self, stack[q].received[2]))
        => Admitted(stack[p].self, stack[p].received[2])

\* C3: two individuals are blocked into node d one after the other and the
\* release of the first from its origin makes d release again
C3_Scenario ==
    \E p, q \in 1..Len(stack) :
        /\ p < q
        /\ stack[p].self = stack[q].self
        /\ stack[p].received # <<>>
        /\ stack[q].received # <<>>

\* a step of finish_service that found its individual and routed it to a full node
BlockStep ==
    /\ event = NoEvent
    /\ event'.kind = "finish_service"
    /\ event'.next_individual # 0
    /\ event'.next_node \in Nodes
    /\ Len(individuals[event'.next_node]) >= node_capacity(event'.next_node)

\* C4: when finish_service at node a selects an individual whose destination b
\* is full, the individual becomes blocked, keeps its place in a.individuals
\* and its server, <<a, id>> becomes the last entry of b.blocked_queue, its
\* server gets an edge to every server of b, a's counters move one from the
\* first to the second, and b.individuals does not change.
C4_BlockEffect ==
    [][BlockStep =>
        LET a == event'.node
            b == event'.next_node
            i == event'.next_individual
            s == inds[i].server
        IN /\ inds'[i].is_blocked
           /\ individuals'[a] = individuals[a]
           /\ individuals[a][event'.next_individual_index] = i
           /\ s # NoServer
           /\ inds'[i].server = s
           /\ servers'[a] = servers[a]
           /\ blocked_queue'[b] = Append(blocked_queue[b], <<a, i>>)
           /\ \A k \in 1..c(b) : <<s, <<b, k>>>> \in digraph'
           /\ state'[a] = <<state[a][1] - 1, state[a][2] + 1>>
           /\ individuals'[b] = individuals[b]
           /\ stack' = <<>>
    ]_vars

\* finish_service has blocked an individual into a node of two servers
C4_Witness ==
    /\ event.kind = "finish_service" /\ fault = "" /\ stack = <<>>
    /\ event.next_individual # 0
    /\ ~event.released
    /\ c(event.next_node) = 2
    /\ blocked_queue[event.next_node][Len(blocked_queue[event.next_node])]
         = <<event.node, event.next_individual>>

\* the last step of a release that took an entry off its node's blocked_queue
UnblockingReleaseEnds ==
    /\ stack # <<>>
    /\ Top.pc = "accept"
    /\ Top.received # <<>>
    /\ Len(stack') < Len(stack)

Min2(a, b) == IF a < b THEN a ELSE b
AllServedInFirstC(n) ==
    \A p \in 1..Min2(c(n), Len(individuals'[n])) : inds'[individuals'[n][p]].server # NoServer

\* what C5 says of b's release, a the origin, i the individual and s its old
\* server, but for the blocking graph
C5_Moved(b, a, i) ==
    /\ fault' = ""
    /\ <<a, i>> \notin Range(blocked_queue'[b])
    /\ a # b => i \notin Range(individuals'[a])
    /\ Cardinality({p \in 1..Len(individuals'[b]) : individuals'[b][p] = i}) = 1
    /\ ~inds'[i].is_blocked
    /\ AllServedInFirstC(a)

DetachStep ==
    /\ stack # <<>>
    /\ Top.pc = "detach"
    /\ Len(stack') = Len(stack)

\* C6: right after detatch_server(server, individual) no edge of the blocking
\* graph enters or leaves the server, the server is idle without occupant, the
\* individual has no server, and the edges between other servers are as before.
C6_DetachClearsEdges ==
    [][DetachStep =>
        LET i == Top.next_individual
            s == inds[i].server
        IN /\ fault' = ""
           /\ s # NoServer
           /\ \A e \in digraph' : e[1] # s /\ e[2] # s
           /\ ~servers'[s[1]][s[2]].busy
           /\ servers'[s[1]][s[2]].cust = NoCust
           /\ inds'[i].server = NoServer
           /\ digraph' = {e \in digraph : e[1] # s /\ e[2] # s}
           /\ \A n \in Nodes : \A k \in 1..c(n) : <<n, k>> # s => servers'[n][k] = servers[n][k]
    ]_vars

\* detatch_server has just run on a blocked individual, whose server had edges,
\* and other edges are left
C6_Witness ==
    /\ fault = "" /\ stack # <<>>
    /\ Top.pc = "record"
    /\ inds[Top.next_individual].is_blocked
    /\ inds[Top.next_individual].server = NoServer
    /\ digraph # {}

SetMin(S) == CHOOSE x \in S : \A y \in S : x <= y
FirstCIds(n) == {individuals[n][p] : p \in 1..Min2(c(n), Len(individuals[n]))}
\* the completion dates that count at node n at date t
PendingEnds(n, t) ==
    {inds[i].service_end_date : i \in {j \in FirstCIds(n) :
        /\ ~inds[j].is_blocked
        /\ inds[j].service_end_date # Unset
        /\ inds[j].service_end_date > t}}

\* C7: update_next_event_date(current_time) sets next_event_date to the least
\* service_end_date of the individuals in the first c places that are not
\* blocked and end after current_time, and to Inf when there is none.  Between
\* events every node has been updated at the driver's current time.
C7_NextEventDate ==
    ~InEvent =>
        \A n \in Nodes :
            next_event_date[n] =
                IF PendingEnds(n, clock) = {} THEN Inf ELSE SetMin(PendingEnds(n, clock))

\* a node has an event to come while one of its first c is blocked and another
\* ended at the current date
C7_Witness ==
    /\ ~InEvent /\ fault = ""
    /\ \E n \in Nodes :
          /\ next_event_date[n] # Inf
          /\ \E i \in FirstCIds(n) : inds[i].is_blocked

\* C8: accept(individual, t) always succeeds, whatever the node holds: it
\* clears exit_date and is_blocked, sets arrival_date to t, appends the
\* individual at the end of individuals, adds one to the node's first counter,
\* and attaches an idle server, with service_start_date t and service_end_date
\* t + service_time, exactly when fewer than c individuals were present;
\* otherwise the individual has no server and no service start.
AcceptPost(n, i, t) ==
    /\ fault' = ""
    /\ inds'[i].exit_date = Unset
    /\ ~inds'[i].is_blocked
    /\ inds'[i].arrival_date = t
    /\ inds'[i].service_time \in service_times(n, inds'[i].customer_class)
    /\ individuals'[n] = Append(individuals[n], i)
    /\ state'[n] = <<state[n][1] + 1, state[n][2]>>
    /\ IF Len(individuals[n]) < c(n)
       THEN /\ \E k \in 1..c(n) :
                  /\ ~servers[n][k].busy
                  /\ inds'[i].server = <<n, k>>
                  /\ servers'[n] = [servers[n] EXCEPT ![k] = [cust |-> i, busy |-> TRUE]]
            /\ inds'[i].service_start_date = t
            /\ inds'[i].service_end_date = t + inds'[i].service_time
       ELSE /\ inds'[i].server = NoServer
            /\ servers'[n] = servers[n]
            /\ inds'[i].service_start_date = Unset
            /\ inds'[i].service_end_date = Unset

C8_AcceptEffect ==
    [][/\ (event = NoEvent /\ event'.kind = "arrival")
            => AcceptPost(event'.node, event'.individual, clock')
       /\ (stack # <<>> /\ Top.pc = "accept" /\ Len(stack') < Len(stack) /\ Top.next_node \in Nodes)
            => AcceptPost(Top.next_node, Top.next_individual, Top.current_time)
    ]_vars

\* accept has just admitted an individual to a node that was already full
C8_Witness ==
    /\ event.kind = "arrival" /\ fault = ""
    /\ Len(individuals[event.node]) > node_capacity(event.node)
    /\ individuals[event.node][Len(individuals[event.node])] = event.individual
    /\ inds[event.individual].server = NoServer

\* the driver's update after finish_service released an individual from a
\* node where somebody waited without a server
ReleaseFromQueueingNodeDone ==
    /\ event.kind = "finish_service"
    /\ event.released
    /\ event.waiting # <<>>
    /\ event' = NoEvent

\* the completion dates of node n's served, non-blocked individuals after the step
ServiceEnds(n) ==
    {inds'[i].service_end_date : i \in {j \in Range(individuals'[n]) :
        inds'[j].server # NoServer /\ ~inds'[j].is_blocked}}

NextInLineServed(n, q) ==
    /\ q \in Range(individuals'[n])
    /\ inds'[q].server # NoServer
    /\ inds'[q].server[1] = n
    /\ inds'[q].service_start_date = clock
    /\ inds'[q].service_end_date = inds'[q].service_start_date + inds'[q].service_time

RECURSIVE RowSum(_, _)
RowSum(row, p) == IF p = 0 THEN 0 ELSE row[p] + RowSum(row, p - 1)

\* C10: next_node(class), for the draw r, returns the transitive node of the
\* lowest index p with r < cum_transition_row[class][p], and the exit node when
\* there is none; a node of raw probability 0 is never returned.
C10_Routing ==
    (event.kind = "finish_service" /\ event.next_individual # 0) =>
        LET row == params.transition_matrix[inds[event.next_individual].customer_class][event.node]
            hits == {p \in 1..Len(row) : event.rnd_num < RowSum(row, p)}
        IN /\ event.next_node = IF hits = {} THEN ExitNode ELSE SetMin(hits)
           /\ event.next_node # ExitNode => row[event.next_node] # 0

\* a draw passed over a node of probability 0 and chose the node after it
C10_Witness ==
    /\ event.kind = "finish_service" /\ event.next_individual # 0
    /\ event.next_node = 2
    /\ params.transition_matrix[inds[event.next_individual].customer_class][event.node][1] = 0

\* the step of release that writes the visit record
RecordStep ==
    /\ stack # <<>>
    /\ Top.pc = "record"
    /\ Len(stack') = Len(stack)

AcceptOnFullStep ==
    /\ event = NoEvent
    /\ event'.kind = "arrival"
    /\ ~PyLt(Len(individuals[event'.node]), node_capacity(event'.node))

\* C12: accept invoked on a node that already holds node_capacity individuals
\* ends in a fault and admits nobody: the node's list and its counters are as
\* before, so no node ever holds more than its capacity.
C12_AcceptFullFaults ==
    [][AcceptOnFullStep =>
        /\ fault' # ""
        /\ individuals' = individuals
        /\ state' = state
    ]_vars

\* accept has returned normally and its node holds more than its capacity
C12_Scenario ==
    /\ event.kind = "arrival" /\ fault = ""
    /\ PyLt(node_capacity(event.node), Len(individuals[event.node]))
    /\ state[event.node][1] + state[event.node][2] = Len(individuals[event.node])

\* a call of finish_service on node n that finds nobody in service to finish:
\* no end date among the first c equals next_event_date, or the individual
\* found is already blocked
NotInServiceStep(n) ==
    /\ stack = <<>> /\ fault = ""
    /\ event'.kind = "finish_service"
    /\ event'.node = n
    /\ LET p == end_date_index(World, n, 1)
       IN p = 0 \/ inds[individuals[n][p]].is_blocked

\* C13: finish_service does not process an individual that is not in service:
\* such a call ends in a fault and leaves the individuals lists, the blocked
\* queues, the counters and the blocking graph as they were.
C13_NotInServiceFaults ==
    [][\A n \in Nodes : NotInServiceStep(n) =>
        /\ fault' # ""
        /\ individuals' = individuals
        /\ blocked_queue' = blocked_queue
        /\ state' = state
        /\ digraph' = digraph
    ]_vars

\* a blocked individual has been blocked a second time
C13_Scenario ==
    /\ fault = "" /\ stack = <<>>
    /\ event.kind = "finish_service"
    /\ ~event.released
    /\ Cardinality(QueuedAs(event.next_individual)) = 2

\* the driver's call of finish_service
FinishStep ==
    /\ stack = <<>> /\ fault = ""
    /\ event = NoEvent
    /\ event'.kind = "finish_service"

\* C14: finish_service takes the individual of lowest index among the first c
\* whose service_end_date equals next_event_date, draws its destination once,
\* and releases it at date next_event_date exactly when the destination holds
\* fewer individuals than its capacity, blocking it otherwise; a destination
\* of unbounded capacity always has room.
C14_FinishService ==
    [][FinishStep =>
        LET n == event'.node
            d == next_event_date[n]
            matches == {p \in 1..Min2(c(n), Len(individuals[n])) :
                           inds[individuals[n][p]].service_end_date = d}
            i == event'.next_individual
            dest == event'.next_node
            room == \/ dest = ExitNode
                    \/ params.queue_capacities[dest] = Inf
                    \/ Len(individuals[dest]) < params.queue_capacities[dest] + params.c[dest]
        IN /\ matches # {}
           /\ event'.next_individual_index = SetMin(matches)
           /\ i = individuals[n][SetMin(matches)]
           /\ dest = next_node(n, inds[i].customer_class, event'.rnd_num)
           /\ fault' = ""
           /\ individuals' = individuals
           /\ IF room
              THEN /\ Len(stack') = 1
                   /\ stack'[1].self = n
                   /\ stack'[1].next_individual_index = SetMin(matches)
                   /\ stack'[1].next_node = dest
                   /\ stack'[1].current_time = d
                   /\ stack'[1].pc = "pop"
                   /\ inds' = inds /\ blocked_queue' = blocked_queue
              ELSE /\ stack' = <<>>
                   /\ inds'[i].is_blocked
                   /\ blocked_queue'[dest] = Append(blocked_queue[dest], <<n, i>>)
    ]_vars

\* finish_service has released an individual to a node without capacity limit
\* that held more individuals than it has servers
C14_Witness ==
    /\ fault = "" /\ event.kind = "finish_service"
    /\ event.released
    /\ event.next_node \in Nodes
    /\ node_capacity(event.next_node) = Inf
    /\ Len(stack) = 1 /\ Top.pc = "pop"
    /\ Len(individuals[event.next_node]) > c(event.next_node) + 1

\* the individual is in no node's list, the exit node's included, after the step
InNoListNext(i) == \A n \in 1..ExitNode : i \notin Range(individuals'[n])
TotalState(st, n) == st[n][1] + st[n][2]

\* what one step of the innermost release f does, i its individual
ReleaseStepInOrder(f, i) ==
    LET n == f.self
        top == stack'[Len(stack)]
    IN /\ f.pc = "pop" =>
            /\ Len(individuals'[n]) = Len(individuals[n]) - 1
            /\ InNoListNext(top.next_individual)
            /\ inds'[top.next_individual].exit_date = f.current_time
            /\ inds'[top.next_individual].server # NoServer
            /\ servers' = servers
            /\ Len(stack') = Len(stack) /\ top.pc = "detach"
       /\ f.pc = "detach" =>
            /\ inds[i].server # NoServer /\ inds'[i].server = NoServer
            /\ inds'[i].data_records = inds[i].data_records
            /\ state' = state
            /\ Len(stack') = Len(stack) /\ top.pc = "record"
       /\ f.pc = "record" =>
            /\ Len(inds'[i].data_records[n]) = Len(inds[i].data_records[n]) + 1
            /\ state' = state
            /\ Len(stack') = Len(stack) /\ top.pc = "state"
       /\ f.pc = "state" =>
            /\ TotalState(state', n) = TotalState(state, n) - 1
            /\ blocked_queue' = blocked_queue /\ servers' = servers
            /\ Len(stack') = Len(stack) /\ top.pc = "unblock"
       /\ f.pc = "unblock" =>
            /\ servers' = servers /\ individuals' = individuals
            /\ top.pc = "begin"
            /\ IF blocked_queue[n] = <<>>
               THEN Len(stack') = Len(stack)
               ELSE /\ Len(stack') = Len(stack) + 1
                    /\ stack'[Len(stack')].pc = "pop"
                    /\ stack'[Len(stack')].next_node = n
       /\ f.pc = "begin" =>
            /\ individuals' = individuals
            /\ blocked_queue' = blocked_queue
            /\ Len(stack') = Len(stack) /\ top.pc = "accept"
       /\ f.pc = "accept" =>
            /\ stack' = SubSeq(stack, 1, Len(stack) - 1)
            /\ individuals'[f.next_node] = Append(individuals[f.next_node], i)

\* every release below the innermost one is waiting for its cascade: it has
\* decremented its counter and not yet filled its slot, and its individual is
\* in no list and holds no server
CascadeSuspendsNext ==
    \A k \in 1..(Len(stack') - 1) :
        /\ stack'[k].pc = "begin"
        /\ InNoListNext(stack'[k].next_individual)
        /\ inds'[stack'[k].next_individual].server = NoServer

\* C15: in every release the individual is removed from the list and its exit
\* date stamped, then its server is detached, then the record is written, then
\* the counter is decremented, then the node's unblocking cascade runs to its
\* end, then the vacated slot is filled, and only then is the individual
\* accepted at its destination; while the cascade runs the individual is in no
\* node's list and holds no server.
C15_ReleaseOrder ==
    [][(stack # <<>> /\ fault = "") =>
        /\ fault' = ""
        /\ ReleaseStepInOrder(Top, IF Top.pc = "pop" THEN 0 ELSE Top.next_individual)
        /\ CascadeSuspendsNext
    ]_vars

\* three releases are nested and the outermost individual is still on its way
C15_Witness ==
    /\ fault = "" /\ Len(stack) >= 3
    /\ stack[1].pc = "begin"
    /\ \A n \in 1..ExitNode : stack[1].next_individual \notin Range(individuals[n])
    /\ Top.pc = "accept"

IdleServers(n) == {k \in 1..c(n) : ~servers[n][k].busy}
\* the places among node n's first c whose individual has no server
UnservedInFirstC(n) ==
    {p \in 1..Min2(c(n), Len(individuals[n])) : inds[individuals[n][p]].server = NoServer}

\* C16: find_free_server is never called on a node whose servers are all
\* busy.  Wherever an attach is about to happen there are idle servers enough:
\* when a release is about to fill its slot, when a release is about to hand
\* its individual to a node holding fewer than c, and, between events, at
\* every node holding fewer than c, where an arrival may come; and no call has
\* failed.
C16_FreeServerFound ==
    /\ fault # "IndexError"
    /\ (fault = "" /\ stack # <<>> /\ Top.pc = "begin" /\ Len(individuals[Top.self]) >= c(Top.self))
          => Cardinality(UnservedInFirstC(Top.self)) <= Cardinality(IdleServers(Top.self))
    /\ (fault = "" /\ stack # <<>> /\ Top.pc = "accept" /\ Top.next_node \in Nodes)
          => (Len(individuals[Top.next_node]) < c(Top.next_node) => IdleServers(Top.next_node) # {})
    /\ (fault = "" /\ stack = <<>>)
          => \A n \in Nodes : Len(individuals[n]) < c(n) => IdleServers(n) # {}

\* inside a cascade an individual is about to be accepted and served at a node
\* whose own release has not filled its slot yet
C16_Witness ==
    /\ fault = "" /\ Len(stack) >= 2
    /\ Top.pc = "accept"
    /\ Top.next_node \in Nodes
    /\ Len(individuals[Top.next_node]) < c(Top.next_node)
    /\ \E k \in 1..(Len(stack) - 1) : stack[k].self = Top.next_node /\ stack[k].pc = "begin"

\* the entries of all blocked queues together
RECURSIVE TotalQueued(_, _)
TotalQueued(bq, n) == IF n = 0 THEN 0 ELSE Len(bq[n]) + TotalQueued(bq, n - 1)

\* the statements a release has still to execute, itself included
StepsLeft(pc) ==
    CASE pc = "pop" -> 7 [] pc = "detach" -> 6 [] pc = "record" -> 5 [] pc = "state" -> 4
      [] pc = "unblock" -> 3 [] pc = "begin" -> 2 [] pc = "accept" -> 1

RECURSIVE StackSteps(_, _)
StackSteps(st, k) == IF k = 0 THEN 0 ELSE StepsLeft(st[k].pc) + StackSteps(st, k - 1)

\* what an event has still to do at most: the statements of the active
\* releases, and a whole release for every entry a cascade can still take
WorkLeft(st, bq) == StackSteps(st, Len(st)) + 8 * TotalQueued(bq, NumNodes)

\* C17: every fired event terminates and the chain of nested releases is no
\* deeper than one more than the blocked_queue entries present when the event
\* fired.  An event starts with one release at most; every step of an active
\* release lowers WorkLeft, a natural number, and never raises the sum of the
\* depth and the entries, a new release being entered only for an entry taken.
C17_CascadeTerminates ==
    [][/\ stack = <<>> => Len(stack') <= 1
       /\ (stack # <<>> /\ fault = "") =>
            /\ fault' = ""
            /\ WorkLeft(stack', blocked_queue') < WorkLeft(stack, blocked_queue)
            /\ Len(stack') + TotalQueued(blocked_queue', NumNodes)
                 <= Len(stack) + TotalQueued(blocked_queue, NumNodes)
    ]_vars

\* a cascade releases an individual that was blocked on its own node
C17_Witness ==
    /\ fault = "" /\ Len(stack) >= 2
    /\ Top.self = Top.next_node
    /\ Top.pc = "accept"

\* the counters of every node tell its blocked and its other individuals, after the step
CountersMatchNext ==
    \A n \in Nodes :
        LET blocked == {p \in 1..Len(individuals'[n]) : inds'[individuals'[n][p]].is_blocked}
        IN /\ state'[n][1] >= 0 /\ state'[n][2] >= 0
           /\ (stack' = <<>> /\ fault' = "") =>
                 /\ state'[n][2] = Cardinality(blocked)
                 /\ state'[n][1] = Len(individuals'[n]) - Cardinality(blocked)

\* which step changes the counters of node n, and how
CounterChange(n) ==
    LET accepted == Len(individuals'[n]) = Len(individuals[n]) + 1
        left == stack # <<>> /\ Top.pc = "state" /\ Top.self = n
        blocks == /\ stack = <<>> /\ stack' = <<>>
                  /\ event'.kind = "finish_service" /\ event'.node = n
                  /\ event'.next_individual # 0 /\ ~event'.released
                  /\ blocked_queue' # blocked_queue
    IN /\ accepted => state'[n] = <<state[n][1] + 1, state[n][2]>>
       /\ left => state'[n] \in {<<state[n][1] - 1, state[n][2]>>, <<state[n][1], state[n][2] - 1>>}
       /\ blocks => state'[n] = <<state[n][1] - 1, state[n][2] + 1>>
       /\ ~(accepted \/ left \/ blocks) => state'[n] = state[n]

\* C18: between events the second counter of every node is the number of
\* blocked individuals in its list and the first the number of the others, so
\* they sum to the length of the list; no counter is ever negative; and each
\* accept, release and block changes the node's pair once, nothing else does.
C18_Counters ==
    [][/\ CountersMatchNext
       /\ fault = "" => \A n \in Nodes : CounterChange(n)
    ]_vars

\* a cascade has moved a blocked individual and the node it left still holds
\* both a blocked and a non-blocked individual
C18_Witness ==
    /\ fault = "" /\ stack = <<>>
    /\ event.kind = "finish_service" /\ event.released
    /\ event.queued > 0
    /\ \E n \in Nodes : state[n][1] >= 1 /\ state[n][2] >= 1

\* C19: between events, in every node the individuals that hold a server are
\* those in the first min(c, len(individuals)) places, so nobody at place
\* c + 1 or beyond holds one and no server is idle while somebody waits; a
\* busy server's occupant is in the node's list and refers to that server, an
\* idle server has no occupant, and no two individuals hold the same server.
C19_ServedAreFirstC ==
    (stack = <<>> /\ fault = "") =>
        \A n \in Nodes :
            /\ ServedIn(n) = 1..Min2(c(n), Len(individuals[n]))
            /\ (\E p \in 1..Len(individuals[n]) : p \notin ServedIn(n)) => IdleServers(n) = {}
            /\ \A k \in 1..c(n) :
                  IF servers[n][k].busy
                  THEN /\ servers[n][k].cust \in Range(individuals[n])
                       /\ inds[servers[n][k].cust].server = <<n, k>>
                  ELSE servers[n][k].cust = NoCust
            /\ \A p, q \in ServedIn(n) :
                  inds[individuals[n][p]].server = inds[individuals[n][q]].server => p = q
            /\ \A p \in ServedIn(n) : inds[individuals[n][p]].server[1] = n

\* an event whose cascade brought an individual to a node where another waited
\* is over, and the node holds more individuals than servers
C19_Witness ==
    /\ fault = "" /\ stack = <<>>
    /\ event.kind = "finish_service" /\ event.released
    /\ event.waiting # <<>>
    /\ event.queued > 0
    /\ Len(individuals[event.node]) > c(event.node)
    /\ inds[event.waiting[1]].server # NoServer

\* C20: between events an individual is blocked exactly when one entry of the
\* blocked queues, and only one, names it, and the origin of that entry is the
\* node whose list holds it; so the lookups of release_blocked_individual and
\* of attach_server find their individual: every entry, at any moment, names
\* an individual of its origin's list, and no lookup has failed.
C20_BlockedIffQueued ==
    /\ fault = ""
    /\ \A d \in Nodes : \A q \in 1..Len(blocked_queue[d]) :
          /\ blocked_queue[d][q][1] \in Nodes
          /\ blocked_queue[d][q][2] \in Range(individuals[blocked_queue[d][q][1]])
    /\ stack = <<>> =>
          \A i \in 1..Len(inds) :
              /\ inds[i].is_blocked <=> Cardinality(QueuedAs(i)) = 1
              /\ Cardinality(QueuedAs(i)) <= 1
              /\ \A e \in QueuedAs(i) : i \in Range(individuals[blocked_queue[e[1]][e[2]][1]])
              /\ Cardinality({n \in 1..ExitNode : i \in Range(individuals[n])}) = 1

\* between events two individuals of different nodes wait for the same node
C20_Witness ==
    /\ fault = "" /\ stack = <<>> /\ event = NoEvent
    /\ \E d \in Nodes :
          /\ Len(blocked_queue[d]) >= 2
          /\ blocked_queue[d][1][1] # blocked_queue[d][2][1]

\* after the step no release is active and every node somebody is blocked on is full
BlockedOnFullNext ==
    (stack' = <<>> /\ fault' = "") =>
        \A n \in Nodes :
            blocked_queue'[n] # <<>> => Len(individuals'[n]) = node_capacity(n)

\* C21: between events a node whose blocked_queue is not empty holds
\* node_capacity individuals.  Every release from such a node takes the head
\* entry, and only it, off the queue and releases that individual to the
\* node, where it has been admitted when the release returns.
C21_BlockedOnlyOnFull ==
    [][/\ BlockedOnFullNext
       /\ (stack # <<>> /\ fault = "" /\ Top.pc = "unblock" /\ blocked_queue[Top.self] # <<>>) =>
             /\ fault' = ""
             /\ blocked_queue'[Top.self] = Tail(blocked_queue[Top.self])
             /\ Len(stack') = Len(stack) + 1
             /\ stack'[Len(stack')].self = blocked_queue[Top.self][1][1]
             /\ stack'[Len(stack')].next_node = Top.self
             /\ individuals[stack'[Len(stack')].self][stack'[Len(stack')].next_individual_index]
                  = blocked_queue[Top.self][1][2]
       /\ (stack # <<>> /\ fault = "" /\ Top.pc = "accept" /\ Top.received # <<>>) =>
             Cardinality({p \in 1..Len(individuals'[Top.self]) :
                             individuals'[Top.self][p] = Top.received[2]}) = 1
    ]_vars

\* an event released an individual from a node on which two were blocked, and
\* one of them is still waiting
C21_Witness ==
    /\ fault = "" /\ stack = <<>>
    /\ event.kind = "finish_service" /\ event.released
    /\ event.queued >= 2
    /\ blocked_queue[event.node] # <<>>

AllServers == UNION {{<<n, k>> : k \in 1..c(n)} : n \in Nodes}

\* the occupant of server u is blocked and waits in the queue of node d
WaitsFor(u, d) ==
    /\ servers[u[1]][u[2]].busy
    /\ servers[u[1]][u[2]].cust # NoCust
    /\ inds[servers[u[1]][u[2]].cust].is_blocked
    /\ <<u[1], servers[u[1]][u[2]].cust>> \in Range(blocked_queue[d])

\* C22: between events the blocking graph has the edge <<u, v>> exactly when
\* the occupant of server u is blocked with an entry in the blocked_queue of
\* v's node and v is busy.  So a blocked individual's server has an edge to
\* every server of the node it waits for, whoever holds them now, and an idle
\* server or the server of an individual that is not blocked has no edge out.
C22_BlockingGraph ==
    (stack = <<>> /\ fault = "") =>
        /\ digraph \subseteq AllServers \X AllServers
        /\ \A u, v \in AllServers :
              <<u, v>> \in digraph <=> (WaitsFor(u, v[1]) /\ servers[v[1]][v[2]].busy)
        /\ \A u \in AllServers : \A d \in Nodes :
              WaitsFor(u, d) => \A k \in 1..c(d) : <<u, <<d, k>>>> \in digraph

\* between events a blocked individual's server has an edge to a server whose
\* occupant began service there after the individual was blocked
C22_Witness ==
    /\ fault = "" /\ stack = <<>>
    /\ \E e \in digraph :
          LET i == servers[e[1][1]][e[1][2]].cust
              j == servers[e[2][1]][e[2][2]].cust
          IN /\ i # NoCust /\ j # NoCust
             /\ inds[i].is_blocked
             /\ inds[j].service_start_date # Unset
             /\ inds[j].service_start_date > inds[i].service_end_date

\* the individuals of node n that hold a server and are not blocked
InService(n) ==
    {i \in Range(individuals[n]) : inds[i].server # NoServer /\ ~inds[i].is_blocked}

\* C23: under the driver that fires the node of least next_event_date and then
\* updates every node at the current date, no completion is skipped.  Dates
\* never go back and update_next_event_date looks only at end dates later
\* than the current date, so an individual in service whose end date is not
\* later than the date of the last update is never selected again: between
\* events there is no such individual.
C23_NoCompletionSkipped ==
    (event = NoEvent /\ stack = <<>> /\ fault = "") =>
        \A n \in Nodes : \A i \in InService(n) :
            /\ inds[i].service_end_date # Unset
            /\ inds[i].service_end_date > clock

\* two individuals of a node were to end at the same date; one has been
\* selected at that date, the node has been updated, and the other, whose
\* service took time, is still in service with no event to come for the node
C23_Scenario ==
    /\ event = NoEvent /\ stack = <<>> /\ fault = ""
    /\ \A k \in 1..Len(inds) :
          inds[k].arrival_date = clock => \E m \in Nodes : inds[k].data_records[m] # <<>>
    /\ \E n \in Nodes : \E i \in InService(n) :
          /\ inds[i].service_end_date = clock
          /\ inds[i].service_time > 0
          /\ inds[i].arrival_date < clock
          /\ next_event_date[n] = Inf
          /\ \E j \in 1..Len(inds) :
                /\ j # i
                /\ inds[j].data_records[n] # <<>>
                /\ inds[j].data_records[n][Len(inds[j].data_records[n])].service_end_date = clock
                /\ inds[j].data_records[n][Len(inds[j].data_records[n])].exit_date = clock

\* where individual i is: its positions in the lists of all nodes, the exit
\* node's included, and the releases that have removed it and not yet handed it on
Places(i) == {<<n, p>> \in (1..ExitNode) \X (1..MaxInds) :
                 p <= Len(individuals[n]) /\ individuals[n][p] = i}
Carried(i) == {k \in 1..Len(stack) : stack[k].pc # "pop" /\ stack[k].next_individual = i}
Conserved == \A i \in 1..Len(inds) : Cardinality(Places(i)) + Cardinality(Carried(i)) = 1

\* a step of a release keeps the destination and the individual of every
\* release in progress, and its last step appends the individual once to the
\* destination's list and to no other
HandedOnNext ==
    /\ \A k \in 1..Len(stack) : k <= Len(stack') =>
          /\ stack'[k].next_node = stack[k].next_node
          /\ stack[k].pc # "pop" => stack'[k].next_individual = stack[k].next_individual
    /\ (Top.pc = "accept") =>
          /\ stack' = SubSeq(stack, 1, Len(stack) - 1)
          /\ individuals' = [individuals EXCEPT ![Top.next_node] = Append(@, Top.next_individual)]
    /\ (Top.pc \notin {"pop", "accept"}) => individuals' = individuals

\* C24: every accepted individual is at every moment either exactly once in
\* exactly one node's list (the exit node's once it has left) or removed by
\* exactly one release in progress; that release keeps its destination and ends
\* by appending the individual once to the destination's list; an event ends
\* only when no release is in progress, so between events every individual is
\* in exactly one list, and an event changes the lists only through releases.
C24_Conserved ==
    [][/\ Conserved'
       /\ stack # <<>> => HandedOnNext
       /\ (event # NoEvent /\ event' = NoEvent) => (stack = <<>> /\ individuals' = individuals)
       /\ (stack = <<>> /\ stack' = <<>> /\ event = NoEvent /\ individuals' # individuals) =>
             (event'.kind = "arrival" /\ Len(inds') = Len(inds) + 1)
    ]_vars

\* an event has ended whose release made room for a blocked individual, and
\* somebody has left the network
C24_Witness ==
    /\ stack = <<>> /\ fault = "" /\ event # NoEvent
    /\ event.kind = "finish_service" /\ event.released /\ event.queued > 0
    /\ individuals[ExitNode] # <<>>
    /\ Len(inds) >= 3

\* the records written so far, of all individuals at all nodes
Records == UNION {Range(inds[i].data_records[n]) : <<i, n>> \in (1..Len(inds)) \X Nodes}

\* the release that is about to remove its individual finds it holding a server
\* of the node, with the dates of a service begun and completed by now
ReleasedAfterService ==
    LET f == Top
        ind == inds[individuals[f.self][f.next_individual_index]]
    IN /\ ind.server # NoServer
       /\ ind.server[1] = f.self
       /\ Unset \notin {ind.arrival_date, ind.service_time, ind.service_start_date,
                        ind.service_end_date}
       /\ ind.arrival_date <= ind.service_start_date
       /\ ind.service_start_date <= ind.service_end_date
       /\ ind.service_end_date = ind.service_start_date + ind.service_time
       /\ ind.service_end_date <= f.current_time
       /\ inds'[ind.id_number].exit_date = f.current_time

\* C25: a release removes only an individual that holds a server of the node
\* and whose dates satisfy arrival_date <= service_start_date <=
\* service_end_date <= the date of the release, which becomes its exit_date;
\* every record written has these dates in this order and a wait and a blocked
\* duration that are not negative.
C25_ReleasedAfterService ==
    [][/\ (stack # <<>> /\ fault = "" /\ Top.pc = "pop") => ReleasedAfterService
       /\ \A r \in Records' :
             /\ r.arrival_date <= r.service_start_date
             /\ r.service_start_date <= r.service_end_date
             /\ r.service_end_date <= r.exit_date
             /\ r.wait >= 0 /\ r.blocked >= 0
             /\ r.arrival_date >= 0
    ]_vars

\* records have been written for a visit that waited for a server and for a
\* visit that, its service completed, was blocked before it was released
C25_Witness ==
    /\ fault = ""
    /\ \E r \in Records : r.wait > 0 /\ r.service_time > 0 /\ r.blocked = 0
    /\ \E r \in Records : r.wait = 0 /\ r.service_time > 0 /\ r.blocked > 0

====
